---- MODULE Spec2Model ----
(***************************************************************************)
(* Model of tldr-code: the directory scan / aggregate pipeline of          *)
(* src/tldr/TLDRFileCreator.py and its atomic writer.                      *)
(*                                                                         *)
(* Text (paths, file names) is a sequence of character codes, so that      *)
(* os.path.join, os.path.abspath and list.sort() compare and build strings *)
(* the way Python does.  The filesystem is a function from absolute paths  *)
(* to nodes.  Collaborators that are not part of the repository (pygments, *)
(* the signature extractor, the LLM provider, the operating system) are    *)
(* modelled by their documented behaviour, with every outcome they can     *)
(* produce as a nondeterministic choice.                                   *)
(***************************************************************************)
EXTENDS Integers, Sequences, FiniteSets, TLC

(***************************************************************************)
(* Bounds of the model.                                                    *)
(***************************************************************************)
\* number of chunks json.dump writes a document in
NChunks == 2
\* largest value of the wall clock (seconds)
MaxClock == 1
\* largest number of lines of a text given to _parse_signatures
MaxLines == 3

(***************************************************************************)
(* Text and os.path (posixpath).                                           *)
(***************************************************************************)
SEP == <<47>>                     \* "/"
Cwd == <<47, 119>>                \* "/w", the process's working directory

\* str.startswith / str.endswith
StartsWith(s, pre) ==
    /\ Len(pre) <= Len(s)
    /\ SubSeq(s, 1, Len(pre)) = pre

EndsWith(s, suf) ==
    /\ Len(suf) <= Len(s)
    /\ SubSeq(s, Len(s) - Len(suf) + 1, Len(s)) = suf

\* Python's < on str: lexicographic by code point
RECURSIVE StrLess(_, _)
StrLess(s, t) ==
    IF t = <<>> THEN FALSE
    ELSE IF s = <<>> THEN TRUE
    ELSE IF s[1] # t[1] THEN s[1] < t[1]
    ELSE StrLess(Tail(s), Tail(t))

\* str.split(c): the pieces of s between occurrences of the character c
RECURSIVE SplitOn(_, _)
SplitOn(s, c) ==
    IF \A i \in 1..Len(s) : s[i] # c THEN <<s>>
    ELSE LET i == CHOOSE k \in 1..Len(s) :
                     s[k] = c /\ \A j \in 1..(k - 1) : s[j] # c
         IN  <<SubSeq(s, 1, i - 1)>> \o SplitOn(SubSeq(s, i + 1, Len(s)), c)

\* c.join(parts)
RECURSIVE JoinWith(_, _)
JoinWith(parts, c) ==
    IF parts = <<>> THEN <<>>
    ELSE IF Len(parts) = 1 THEN parts[1]
    ELSE parts[1] \o <<c>> \o JoinWith(Tail(parts), c)

\* index of the last "/" of p, 0 when there is none  (p.rfind('/') + 1)
LastSlash(p) ==
    IF \A i \in 1..Len(p) : p[i] # 47 THEN 0
    ELSE CHOOSE k \in 1..Len(p) :
             p[k] = 47 /\ \A j \in (k + 1)..Len(p) : p[j] # 47

\* str.rstrip('/')
RECURSIVE RStripSlash(_)
RStripSlash(p) ==
    IF p # <<>> /\ p[Len(p)] = 47 THEN RStripSlash(SubSeq(p, 1, Len(p) - 1))
    ELSE p

IsAbs(p) == StartsWith(p, SEP)

\* os.path.join(a, b)
Join(a, b) ==
    IF IsAbs(b) THEN b
    ELSE IF a = <<>> \/ EndsWith(a, SEP) THEN a \o b
    ELSE a \o SEP \o b

\* os.path.dirname / os.path.basename
Dirname(p) ==
    LET head == SubSeq(p, 1, LastSlash(p))
    IN  IF head # <<>> /\ RStripSlash(head) # <<>> THEN RStripSlash(head) ELSE head

Basename(p) == SubSeq(p, LastSlash(p) + 1, Len(p))

\* the component loop of os.path.normpath: drops "" and ".", resolves ".."
RECURSIVE NormComps(_, _, _)
NormComps(comps, acc, rooted) ==
    IF comps = <<>> THEN acc
    ELSE LET c == Head(comps) IN
         IF c = <<>> \/ c = <<46>> THEN NormComps(Tail(comps), acc, rooted)
         ELSE IF \/ c # <<46, 46>>
                 \/ (~rooted /\ acc = <<>>)
                 \/ (acc # <<>> /\ acc[Len(acc)] = <<46, 46>>)
              THEN NormComps(Tail(comps), Append(acc, c), rooted)
         ELSE IF acc # <<>>
              THEN NormComps(Tail(comps), SubSeq(acc, 1, Len(acc) - 1), rooted)
         ELSE NormComps(Tail(comps), acc, rooted)

\* os.path.normpath
Normpath(p) ==
    LET body == JoinWith(NormComps(SplitOn(p, 47), <<>>, IsAbs(p)), 47)
        path == IF IsAbs(p) THEN SEP \o body ELSE body
    IN  IF path = <<>> THEN <<46>> ELSE path

\* os.path.abspath
Abspath(p) == Normpath(IF IsAbs(p) THEN p ELSE Join(Cwd, p))

(***************************************************************************)
(* State.                                                                  *)
(***************************************************************************)
VARIABLES
    os_name,          \* os.name: "posix" or "nt"
    fs,               \* the filesystem: absolute path -> node
    fs0,              \* history: the filesystem when the run started
    next_ino,         \* the next unused inode number
    now,              \* the wall clock, in seconds
    llm_provider,     \* self.llm_provider: TRUE when a summarizer is configured
    directory_path,   \* create_tldr_file's directory_path argument
    base_output,      \* create_tldr_file's output_filename argument (None or a path)
    recursive,        \* create_tldr_file's recursive argument
    pc,               \* where each invocation is
    output_filename,  \* the output path each invocation writes to
    content,          \* the document each invocation hands to the writer
    temp_path,        \* the writer's temp_path (None before mkstemp)
    pos,              \* chunks written so far to the temp file, or copied so far
    fd,               \* inode the writer's copy has open for writing (0: none)
    err,              \* the exception that left the invocation ("none" if none)
    cause,            \* the underlying failure the writer's handler caught
    walk,             \* os.walk: the directories still to visit, next first
    files,            \* the sorted paths of the directory being built, not yet built
    json_data,        \* the DirectoryRecord being built
    all_directories,  \* the DirectoryRecords built so far (recursive mode)
    processed_count,  \* directories processed so far (recursive mode)
    writer_calls,     \* history: calls of _write_json_atomically so far
    cleanup_failed,   \* history: the handler's removal of the temp file failed
    last_moved,       \* history: the invocation whose shutil.move returned last (0: none)
    failure,          \* history: the collaborator call that raised ("none" if none)
    failed_path,      \* history: the file that call was made for
    visited,          \* history: the directories os.walk has yielded, in order
    built_at,         \* history: the clock when each FileRecord was built, while
                      \* _generate_json_content runs
    first_content,    \* history: the document of the invocation's earlier run
    classified_path,  \* the file_path argument of a call of _is_programming_file
    is_programming,   \* what that call returned: "True", "False" ("none" before)
    github_url,       \* process_github_repo's github_url argument
    adapter_output_dir,  \* process_github_repo's output_dir argument (None or a path)
    cleanup,          \* process_github_repo's cleanup argument
    adapter_pc,       \* where the call of process_github_repo is ("off": no call)
    repo_name,        \* process_github_repo's repo_name
    download_path,    \* process_github_repo's download_path
    should_cleanup_temp,  \* process_github_repo's should_cleanup_temp
    adapter_ret,      \* the value process_github_repo returns (None: none)
    adapter_err,      \* the exception process_github_repo raises
    clone_failure,    \* history: how the clone step failed ("none" if it did not)
    cleanup_logged,   \* history: the removal of the temp directory failed, logged
    scan_calls,       \* history: calls of create_tldr_file by the adapter
    clone_calls,      \* history: runs of git clone
    raw_signatures,   \* the signatures_text argument of a call of _parse_signatures
    signatures        \* what that call returned (NotParsed before)

writerVars == <<fs, next_ino, pc, temp_path, pos, fd, err, cause, writer_calls,
                cleanup_failed, last_moved>>
scanVars == <<now, walk, files, json_data, all_directories, processed_count,
              output_filename, content, failure, failed_path, built_at,
              visited>>
adapterArgs == <<github_url, adapter_output_dir, cleanup>>
adapterVars == <<adapter_pc, repo_name, download_path, should_cleanup_temp,
                 adapter_ret, adapter_err, clone_failure, cleanup_logged,
                 scan_calls, clone_calls>>
parseVars == <<raw_signatures, signatures>>
argVars == <<os_name, fs0, llm_provider, directory_path, base_output, recursive,
             first_content, classified_path, is_programming, adapterArgs,
             adapterVars, parseVars>>
vars == <<writerVars, scanVars, argVars>>

Procs == {1, 2}

\* Python's None, where a path is expected
None == <<0>>

(***************************************************************************)
(* Filesystem nodes and documents on disk.                                 *)
(***************************************************************************)
DirNode == [kind |-> "dir", data |-> <<>>, ino |-> 0]
\* an entry that is neither a directory nor a regular file (FIFO, socket,
\* dangling symlink)
OtherNode == [kind |-> "other", data |-> <<>>, ino |-> 0]
FileNode(d, i) == [kind |-> "file", data |-> d, ino |-> i]

\* json.dump(content, f, indent=2, ensure_ascii=False): the text of a
\* document, as the NChunks pieces it is written in
Serialize(doc) == [i \in 1..NChunks |-> [doc |-> doc, i |-> i]]

\* a region of a file that was never written (reads as NUL bytes)
Hole == [doc |-> [hole |-> TRUE], i |-> 0]

Exists(p) == Abspath(p) \in DOMAIN fs
IsDir(p) == Exists(p) /\ fs[Abspath(p)].kind = "dir"
IsFile(p) == Exists(p) /\ fs[Abspath(p)].kind = "file"

\* the function f without the argument x / with x mapped to v
Without(f, x) == [y \in DOMAIN f \ {x} |-> f[y]]
With(f, x, v) == [y \in DOMAIN f \cup {x} |-> IF y = x THEN v ELSE f[y]]

\* os.listdir(d): the names of the entries of directory d
ListDir(d) == {Basename(q) : q \in {r \in DOMAIN fs : r # SEP /\ Dirname(r) = Abspath(d)}}

(***************************************************************************)
(* _write_json_atomically, one action per step.  Every system call of it   *)
(* can fail; a failure inside the try block goes to the handler.           *)
(***************************************************************************)
RandNames == {<<120>>, <<122>>}   \* the random part of a temp name: "x", "z"

\* prefix + random part + suffix, in directory dir
TempPath(dir, r) ==
    Join(dir, <<116, 108, 100, 114, 95>> \o r
              \o <<46, 106, 115, 111, 110, 46, 116, 109, 112>>)

\* the paths mkstemp can return: it opens with O_CREAT | O_EXCL and tries
\* another name when the name exists
FreeTempPaths(dir) == {TempPath(dir, r) : r \in RandNames} \ DOMAIN fs

Target(p) == Abspath(output_filename[p])

\* the target is held open for writing by a copy in progress
HeldOpen(path) ==
    \E q \in Procs : pc[q] = "w_copy" /\ path \in DOMAIN fs /\ fd[q] = fs[path].ino

\* an exception: its type and, for the writer's wrapped error, the
\* underlying failure its message carries
Error(type, c) == [type |-> type, cause |-> c]
NoError == Error("none", "none")

\* mutant of Except: the failure is swallowed and the writer goes on to the
\* move
ExceptSwallowed(p, c) ==
    /\ pc' = [pc EXCEPT ![p] = "w_platform"]
    /\ cause' = [cause EXCEPT ![p] = c]
    /\ fd' = [fd EXCEPT ![p] = 0]

\* enter the except block with the underlying failure c
Except(p, c) ==
    /\ pc' = [pc EXCEPT ![p] = "w_except"]
    /\ cause' = [cause EXCEPT ![p] = c]
    /\ fd' = [fd EXCEPT ![p] = 0]

\* line 327-334: tempfile.mkstemp in the target's directory (outside the try)
Mkstemp(p) ==
    /\ pc[p] = "w_start"
    /\ writer_calls' = writer_calls + 1
    /\ LET output_dir == Dirname(Abspath(output_filename[p])) IN
       \/ /\ IsDir(output_dir)
          /\ \E t \in FreeTempPaths(output_dir) :
                /\ fs' = With(fs, t, FileNode(<<>>, next_ino))
                /\ temp_path' = [temp_path EXCEPT ![p] = t]
          /\ next_ino' = next_ino + 1
          /\ pos' = [pos EXCEPT ![p] = 0]
          /\ pc' = [pc EXCEPT ![p] = "w_dump"]
          /\ UNCHANGED err
       \/ /\ pc' = [pc EXCEPT ![p] = "raised"]
          /\ err' = [err EXCEPT ![p] = Error("OSError", "none")]
          /\ UNCHANGED <<fs, temp_path, next_ino, pos>>
    /\ UNCHANGED <<fd, cause, cleanup_failed, last_moved, scanVars, argVars>>

\* line 338-339: json.dump writes the next chunk to the temp file
WriteChunk(p) ==
    /\ pc[p] = "w_dump"
    /\ pos[p] < NChunks
    /\ \/ /\ fs' = IF temp_path[p] \in DOMAIN fs
                   THEN [fs EXCEPT ![temp_path[p]].data =
                             Append(@, Serialize(content[p])[pos[p] + 1])]
                   ELSE fs
          /\ pos' = [pos EXCEPT ![p] = @ + 1]
          /\ UNCHANGED <<pc, cause, fd>>
       \/ /\ Except(p, "write")
          /\ UNCHANGED <<fs, pos>>
    /\ UNCHANGED <<next_ino, temp_path, err, writer_calls, cleanup_failed,
                   last_moved, scanVars, argVars>>

\* line 340-341: f.flush(), os.fsync(), and the close at the end of the with
FlushFsync(p) ==
    /\ pc[p] = "w_dump"
    /\ pos[p] = NChunks
    /\ \/ /\ pc' = [pc EXCEPT ![p] = "w_platform"]
          /\ UNCHANGED <<cause, fd>>
       \/ Except(p, "fsync")
    /\ UNCHANGED <<fs, next_ino, temp_path, pos, err, writer_calls, cleanup_failed,
                   last_moved, scanVars, argVars>>

\* line 344-346: on Windows an existing target is removed before the move
NeedsPreRemoval(p) == os_name = "nt" /\ Exists(output_filename[p])

CheckPlatform(p) ==
    /\ pc[p] = "w_platform"
    /\ pc' = [pc EXCEPT ![p] = IF NeedsPreRemoval(p) THEN "w_unlink" ELSE "w_move"]
    /\ UNCHANGED <<fs, next_ino, temp_path, pos, fd, err, cause, writer_calls,
                   cleanup_failed, last_moved, scanVars, argVars>>

\* line 347: os.unlink(output_filename).  On Windows a file that another
\* process holds open cannot be removed.
UnlinkTarget(p) ==
    /\ pc[p] = "w_unlink"
    /\ \/ /\ Target(p) \in DOMAIN fs
          /\ ~HeldOpen(Target(p))
          /\ fs' = Without(fs, Target(p))
          /\ pc' = [pc EXCEPT ![p] = "w_move"]
          /\ UNCHANGED <<cause, fd>>
       \/ /\ Except(p, "unlink")
          /\ UNCHANGED fs
    /\ UNCHANGED <<next_ino, temp_path, pos, err, writer_calls, cleanup_failed,
                   last_moved, scanVars, argVars>>

\* os.rename(src, dst) can replace dst: always on POSIX, on Windows only
\* when dst does not exist (FileExistsError otherwise)
RenameAllowed(p) == os_name = "posix" \/ Target(p) \notin DOMAIN fs

\* line 349: shutil.move, first part: os.rename(temp_path, output_filename);
\* when it raises OSError shutil.move falls back to copying
MoveRename(p) ==
    /\ pc[p] = "w_move"
    /\ \/ /\ temp_path[p] \in DOMAIN fs
          /\ RenameAllowed(p)
          /\ fs' = With(Without(fs, temp_path[p]), Target(p), fs[temp_path[p]])
          /\ pc' = [pc EXCEPT ![p] = "done"]
          /\ last_moved' = p
       \/ /\ pc' = [pc EXCEPT ![p] = "w_copy_open"]
          /\ UNCHANGED <<fs, last_moved>>
    /\ UNCHANGED <<next_ino, temp_path, pos, fd, err, cause, writer_calls,
                   cleanup_failed, scanVars, argVars>>

\* line 349: shutil.move, fallback: copy2 opens the source, then opens the
\* destination for writing, which creates or truncates it
CopyOpen(p) ==
    /\ pc[p] = "w_copy_open"
    /\ \/ /\ temp_path[p] \in DOMAIN fs
          /\ IF Target(p) \in DOMAIN fs
             THEN /\ fs[Target(p)].kind = "file"
                  /\ fs' = [fs EXCEPT ![Target(p)].data = <<>>]
                  /\ fd' = [fd EXCEPT ![p] = fs[Target(p)].ino]
                  /\ UNCHANGED next_ino
             ELSE /\ fs' = With(fs, Target(p), FileNode(<<>>, next_ino))
                  /\ fd' = [fd EXCEPT ![p] = next_ino]
                  /\ next_ino' = next_ino + 1
          /\ pos' = [pos EXCEPT ![p] = 0]
          /\ pc' = [pc EXCEPT ![p] = "w_copy"]
          /\ UNCHANGED cause
       \/ /\ Except(p, "move")
          /\ UNCHANGED <<fs, next_ino, pos>>
    /\ UNCHANGED <<temp_path, err, writer_calls, cleanup_failed, last_moved,
                   scanVars, argVars>>

\* data with chunk c written at offset k (a write past the end leaves a hole)
WriteAt(data, k, c) ==
    [i \in 1..(IF k > Len(data) THEN k ELSE Len(data)) |->
        IF i = k THEN c ELSE IF i <= Len(data) THEN data[i] ELSE Hole]

\* line 349: shutil.move, fallback: copy the next chunk into the open file
CopyChunk(p) ==
    /\ pc[p] = "w_copy"
    /\ pos[p] < NChunks
    /\ \/ /\ fs' = IF /\ Target(p) \in DOMAIN fs
                      /\ fs[Target(p)].ino = fd[p]
                      /\ temp_path[p] \in DOMAIN fs
                      /\ pos[p] < Len(fs[temp_path[p]].data)
                   THEN [fs EXCEPT ![Target(p)].data =
                             WriteAt(@, pos[p] + 1, fs[temp_path[p]].data[pos[p] + 1])]
                   ELSE fs
          /\ pos' = [pos EXCEPT ![p] = @ + 1]
          /\ UNCHANGED <<pc, cause, fd>>
       \/ /\ Except(p, "move")
          /\ UNCHANGED <<fs, pos>>
    /\ UNCHANGED <<next_ino, temp_path, err, writer_calls, cleanup_failed,
                   last_moved, scanVars, argVars>>

\* line 349: shutil.move, fallback: close the copy and os.unlink(src)
CopyFinish(p) ==
    /\ pc[p] = "w_copy"
    /\ pos[p] = NChunks
    /\ \/ /\ temp_path[p] \in DOMAIN fs
          /\ fs' = Without(fs, temp_path[p])
          /\ pc' = [pc EXCEPT ![p] = "done"]
          /\ fd' = [fd EXCEPT ![p] = 0]
          /\ last_moved' = p
          /\ UNCHANGED cause
       \/ /\ Except(p, "move")
          /\ UNCHANGED <<fs, last_moved>>
    /\ UNCHANGED <<next_ino, temp_path, pos, err, writer_calls, cleanup_failed,
                   scanVars, argVars>>

\* line 359: raise Exception(f"Failed to write JSON file atomically: {e}")
RaisedByHandler(p) == Error("WriteError", cause[p])

\* mutant of RemoveTemp: the handler leaves the temp file behind
KeepTemp(p) == fs

\* line 355-356: if os.path.exists(temp_path): os.unlink(temp_path)
RemoveTemp(p) == Without(fs, temp_path[p])

\* line 352-359: the handler removes the temp file if it exists, ignoring a
\* failure of the removal, and raises the wrapped error
Cleanup(p) ==
    /\ pc[p] = "w_except"
    /\ \/ /\ fs' = RemoveTemp(p)
          /\ UNCHANGED cleanup_failed
       \/ /\ temp_path[p] \in DOMAIN fs
          /\ cleanup_failed' = [cleanup_failed EXCEPT ![p] = TRUE]
          /\ UNCHANGED fs
    /\ pc' = [pc EXCEPT ![p] = "raised"]
    /\ err' = [err EXCEPT ![p] = RaisedByHandler(p)]
    /\ UNCHANGED <<next_ino, temp_path, pos, fd, cause, writer_calls,
                   last_moved, scanVars, argVars>>

Writer(p) ==
    \/ Mkstemp(p)
    \/ WriteChunk(p)
    \/ FlushFsync(p)
    \/ CheckPlatform(p)
    \/ UnlinkTarget(p)
    \/ MoveRename(p)
    \/ CopyOpen(p)
    \/ CopyChunk(p)
    \/ CopyFinish(p)
    \/ Cleanup(p)

(***************************************************************************)
(* Two invocations that reached the writer with the same target path.      *)
(***************************************************************************)
ProjAbs == <<47, 119, 47, 112>>                          \* "/w/p"
TldrJson == <<116, 108, 100, 114, 46, 106, 115, 111, 110>>   \* "tldr.json"

\* a document left at the target by an earlier run
PriorDoc == [directory_path |-> ProjAbs, last_updated |-> -1, files |-> <<>>]

\* the filesystem without the project's entries
BaseFs == (SEP :> DirNode) @@ (Cwd :> DirNode) @@ (ProjAbs :> DirNode)

PriorFs(prior) ==
    IF prior THEN (Join(ProjAbs, TldrJson) :> FileNode(Serialize(PriorDoc), 1))
    ELSE <<>>

\* no document
NoDoc == [none |-> TRUE]

\* no call of _parse_signatures has returned
NotParsed == <<None>>

\* no call of process_github_repo
AdapterOff ==
    /\ github_url = None
    /\ adapter_output_dir = None
    /\ cleanup = FALSE
    /\ adapter_pc = "off"

InitIdle ==
    /\ next_ino = 2
    /\ now = 0
    /\ temp_path = [p \in Procs |-> None]
    /\ pos = [p \in Procs |-> 0]
    /\ fd = [p \in Procs |-> 0]
    /\ err = [p \in Procs |-> NoError]
    /\ cause = [p \in Procs |-> "none"]
    /\ walk = <<>>
    /\ files = <<>>
    /\ json_data = [directory_path |-> <<>>, last_updated |-> 0, files |-> <<>>]
    /\ all_directories = <<>>
    /\ processed_count = 0
    /\ writer_calls = 0
    /\ cleanup_failed = [p \in Procs |-> FALSE]
    /\ last_moved = 0
    /\ failure = "none"
    /\ failed_path = None
    /\ built_at = <<>>
    /\ visited = <<>>
    /\ first_content = NoDoc
    /\ is_programming = "none"
    /\ repo_name = None
    /\ download_path = None
    /\ should_cleanup_temp = FALSE
    /\ adapter_ret = None
    /\ adapter_err = NoError
    /\ clone_failure = "none"
    /\ cleanup_logged = FALSE
    /\ scan_calls = 0
    /\ clone_calls = 0
    /\ signatures = NotParsed

WriterDoc(p) == [directory_path |-> ProjAbs, last_updated |-> p, files |-> <<>>]

InitConc ==
    /\ InitIdle
    /\ os_name \in {"posix", "nt"}
    /\ \E prior \in BOOLEAN : fs = BaseFs @@ PriorFs(prior)
    /\ fs0 = fs
    /\ llm_provider = FALSE
    /\ directory_path = ProjAbs
    /\ base_output = None
    /\ classified_path = None
    /\ raw_signatures = None
    /\ AdapterOff
    /\ recursive = FALSE
    /\ pc = [p \in Procs |-> "w_start"]
    /\ output_filename = [p \in Procs |-> Join(ProjAbs, TldrJson)]
    /\ content = [p \in Procs |-> WriterDoc(p)]

NextConc == \E p \in Procs : Writer(p)

SpecConc == InitConc /\ [][NextConc]_vars

(***************************************************************************)
(* Eligibility: _is_programming_file.                                      *)
(***************************************************************************)
\* the file name patterns of the lexers the model distinguishes: the lexer's
\* class name and the suffixes of its patterns ("*.py", ...)
LexerPatterns ==
    {[name |-> "PythonLexer", suffixes |-> {<<46, 112, 121>>}],
     [name |-> "CLexer", suffixes |-> {<<46, 99>>}],
     [name |-> "GoLexer", suffixes |-> {<<46, 103, 111>>}],
     [name |-> "JavascriptLexer", suffixes |-> {<<46, 106, 115>>}],
     [name |-> "TextLexer", suffixes |-> {<<46, 116, 120, 116>>}],
     [name |-> "MarkdownLexer", suffixes |-> {<<46, 109, 100>>}],
     [name |-> "RstLexer", suffixes |-> {<<46, 114, 115, 116>>}],
     [name |-> "IniLexer", suffixes |-> {<<46, 105, 110, 105>>, <<46, 99, 102, 103>>}],
     [name |-> "YamlLexer", suffixes |-> {<<46, 121, 97, 109, 108>>, <<46, 121, 109, 108>>}],
     [name |-> "JsonLexer", suffixes |-> {<<46, 106, 115, 111, 110>>}],
     [name |-> "XmlLexer", suffixes |-> {<<46, 120, 109, 108>>}],
     [name |-> "HtmlLexer", suffixes |-> {<<46, 104, 116, 109, 108>>, <<46, 104, 116, 109>>}],
     [name |-> "CssLexer", suffixes |-> {<<46, 99, 115, 115>>}],
     [name |-> "DiffLexer", suffixes |-> {<<46, 100, 105, 102, 102>>, <<46, 112, 97, 116, 99, 104>>}],
     [name |-> "KernelLogLexer", suffixes |-> {<<46, 107, 109, 115, 103>>}]}

\* pygments' get_lexer_for_filename: the class name of the lexer one of
\* whose patterns matches the file's name, "ClassNotFound" when none does
LexerName(path) ==
    LET n == Basename(path)
        matching == {l \in LexerPatterns : \E suf \in l.suffixes : EndsWith(n, suf)}
    IN  IF matching = {} THEN "ClassNotFound"
        ELSE (CHOOSE l \in matching : TRUE).name

\* mutant of excluded_lexers: only the markup classes are excluded
excluded_markup ==
    {"MarkdownLexer", "RstLexer", "XmlLexer", "HtmlLexer"}

\* mutant of excluded_lexers: JSON counts as a programming language
excluded_documents ==
    {"TextLexer", "MarkdownLexer", "RstLexer", "IniLexer", "YamlLexer",
     "XmlLexer", "HtmlLexer", "CssLexer", "DiffLexer", "LogsLexer"}

excluded_lexers ==
    {"TextLexer", "MarkdownLexer", "RstLexer", "IniLexer", "YamlLexer", "JsonLexer",
     "XmlLexer", "HtmlLexer", "CssLexer", "DiffLexer", "LogsLexer"}

\* line 226-241: False for ClassNotFound and for an excluded lexer
IsProgrammingFile(path) ==
    LexerName(path) \notin excluded_lexers \cup {"ClassNotFound"}

(***************************************************************************)
(* _parse_signatures.                                                      *)
(***************************************************************************)
\* the characters str.strip() removes (code points below 256)
WhiteSpace == {9, 10, 11, 12, 13, 28, 29, 30, 31, 32, 133, 160}

RECURSIVE LStrip(_)
LStrip(s) == IF s # <<>> /\ s[1] \in WhiteSpace THEN LStrip(Tail(s)) ELSE s

RECURSIVE RStrip(_)
RStrip(s) ==
    IF s # <<>> /\ s[Len(s)] \in WhiteSpace THEN RStrip(SubSeq(s, 1, Len(s) - 1))
    ELSE s

Strip(s) == RStrip(LStrip(s))

\* the body of the loop over the lines: the signatures one line contributes
ParseLine(raw) ==
    LET line == Strip(raw)
        bullet == StartsWith(line, <<45, 32>>) \/ StartsWith(line, <<42, 32>>)
        text == IF bullet THEN SubSeq(line, 3, Len(line)) ELSE line
    IN  IF line # <<>> /\ ~StartsWith(line, <<35>>) /\ ~StartsWith(line, <<47, 47>>)
        THEN IF StartsWith(text, <<96, 96, 96>>) \/ EndsWith(text, <<96, 96, 96>>)
             THEN <<>>
             ELSE <<text>>
        ELSE <<>>

\* mutant of ParseLines: a signature is inserted at the front of the list
RECURSIVE ParseLinesNewestFirst(_)
ParseLinesNewestFirst(lines) ==
    IF lines = <<>> THEN <<>>
    ELSE ParseLinesNewestFirst(Tail(lines)) \o ParseLine(Head(lines))

\* line 296-313: the loop over the lines
RECURSIVE ParseLines(_)
ParseLines(lines) ==
    IF lines = <<>> THEN <<>> ELSE ParseLine(Head(lines)) \o ParseLines(Tail(lines))

ParseSignatures(signatures_text) ==
    IF signatures_text = <<>> \/ Strip(signatures_text) = <<>> THEN <<>>
    ELSE ParseLines(SplitOn(Strip(signatures_text), 10))

(***************************************************************************)
(* The collaborators' outcomes.                                            *)
(***************************************************************************)
\* what signature_extractor.get_signatures(file_path) can do: raise, or
\* return a text ("f\n- g")
ExtractOutcomes ==
    {[ok |-> FALSE, text |-> <<>>], [ok |-> TRUE, text |-> <<102, 10, 45, 32, 103>>]}

\* what reading the file and llm_provider.generate_summary can do: raise,
\* return a response whose content is None, or one whose content is text (" ok ")
LlmOutcomes ==
    {[kind |-> "raise", content |-> None], [kind |-> "none", content |-> None],
     [kind |-> "str", content |-> <<32, 111, 107, 32>>]}

\* "Summary of what the file does goes here.\nNeeds to be less than 500 characters."
Placeholder ==
    <<83, 117, 109, 109, 97, 114, 121, 32, 111, 102, 32, 119, 104, 97, 116,
      32, 116, 104, 101, 32, 102, 105, 108, 101, 32, 100, 111, 101, 115, 32,
      103, 111, 101, 115, 32, 104, 101, 114, 101, 46, 10, 78, 101, 101, 100,
      115, 32, 116, 111, 32, 98, 101, 32, 108, 101, 115, 115, 32, 116, 104,
      97, 110, 32, 53, 48, 48, 32, 99, 104, 97, 114, 97, 99, 116, 101, 114,
      115, 46>>

(***************************************************************************)
(* create_tldr_file and the two scan modes; invocation 1 runs them.        *)
(***************************************************************************)
Raise(p, e) ==
    /\ pc' = [pc EXCEPT ![p] = "raised"]
    /\ err' = [err EXCEPT ![p] = Error(e, "none")]

\* mutant of CheckDirectory: the directory test comes before the existence test
CheckIsDirFirst(path) ==
    IF ~IsDir(path) THEN "ValueError"
    ELSE IF ~Exists(path) THEN "FileNotFoundError"
    ELSE "none"

\* line 57-61: the exception the two checks raise for path ("none": neither)
CheckDirectory(path) ==
    IF ~Exists(path) THEN "FileNotFoundError"
    ELSE IF ~IsDir(path) THEN "ValueError"
    ELSE "none"

\* line 57-75
CreateTldrFile ==
    /\ pc[1] = "start"
    /\ IF CheckDirectory(directory_path) # "none"
       THEN /\ Raise(1, CheckDirectory(directory_path))
            /\ UNCHANGED <<output_filename, walk>>
       ELSE /\ output_filename' =
                 [output_filename EXCEPT ![1] =
                     IF base_output = None THEN Join(directory_path, TldrJson)
                     ELSE base_output]
            /\ pc' = [pc EXCEPT ![1] = IF recursive THEN "walk" ELSE "listdir"]
            /\ walk' = IF recursive THEN <<directory_path>> ELSE <<>>
            /\ UNCHANGED err
    /\ UNCHANGED <<fs, next_ino, temp_path, pos, fd, cause, writer_calls,
                   cleanup_failed, last_moved, now, files, json_data,
                   all_directories, processed_count, content, failure,
                   failed_path, built_at, visited, argVars>>

\* the orders in which the operating system can list the names in S
Orders(S) ==
    {o \in [1..Cardinality(S) -> S] : \A i, j \in 1..Cardinality(S) : o[i] = o[j] => i = j}

\* mutant of SortPaths: the paths stay in listing order
Unsorted(seq) == seq

\* list.sort() on paths: ascending by Python's str order
RECURSIVE SortPaths(_)
SortPaths(seq) ==
    IF seq = <<>> THEN <<>>
    ELSE LET x == seq[Len(seq)]
             rest == SortPaths(SubSeq(seq, 1, Len(seq) - 1))
             k == Cardinality({i \in 1..Len(rest) : ~StrLess(x, rest[i])})
         IN  SubSeq(rest, 1, k) \o <<x>> \o SubSeq(rest, k + 1, Len(rest))

\* [os.path.join(d, name) for name in names]
PathsIn(d, names) == [i \in 1..Len(names) |-> Join(d, names[i])]

\* line 88-93: the listed entries that are regular files and programming files
SingleModeFilter(d, listing) ==
    SelectSeq(PathsIn(d, listing), LAMBDA q : IsFile(q) /\ IsProgrammingFile(q))

\* line 179-186: the record _generate_json_content starts from
NewJsonData(d) == [directory_path |-> d, last_updated |-> now, files |-> <<>>]

\* line 86-96 and 179-186: list the directory, filter, sort, start the record
ListAndSort ==
    /\ pc[1] = "listdir"
    /\ \E listing \in Orders(ListDir(directory_path)) :
          files' = SortPaths(SingleModeFilter(directory_path, listing))
    /\ json_data' = NewJsonData(Abspath(directory_path))
    /\ built_at' = <<>>
    /\ pc' = [pc EXCEPT ![1] = "build"]
    /\ UNCHANGED <<fs, next_ino, temp_path, pos, fd, err, cause, writer_calls,
                   cleanup_failed, last_moved, now, walk, all_directories,
                   processed_count, output_filename, content, failure,
                   failed_path, visited, argVars>>

\* line 205-210
FileData(file_path, signatures_text, summary) ==
    [file_path |-> Abspath(file_path),
     last_scanned |-> json_data.last_updated,
     signatures |-> ParseSignatures(signatures_text),
     summary |-> summary]

\* line 212
AppendFileData(file_data) ==
    /\ json_data' = [json_data EXCEPT !.files = Append(@, file_data)]
    /\ built_at' = Append(built_at, now)
    /\ files' = Tail(files)
    /\ UNCHANGED <<pc, err>>

\* mutant of ExtractionFailed: the error is swallowed and a record with an
\* error text for signature is appended (line 198 without line 199)
ExtractionSwallowed ==
    AppendFileData([file_path |-> Abspath(Head(files)),
                    last_scanned |-> json_data.last_updated,
                    signatures |-> <<<<69, 114, 114, 111, 114>>>>,
                    summary |-> Placeholder])

\* mutant of ExtractionFailed: the directory is given up and the scan goes on
ExtractionSkipsDirectory ==
    /\ pc' = [pc EXCEPT ![1] = IF recursive THEN "walk" ELSE "raised"]
    /\ files' = <<>>
    /\ UNCHANGED <<err, json_data, built_at>>

\* line 196-199: the extraction error is logged and raised again
ExtractionFailed ==
    /\ Raise(1, "ExtractionError")
    /\ UNCHANGED <<files, json_data, built_at>>

\* mutant of SummaryFailed: the record is kept, with the placeholder summary
SummaryDowngraded ==
    AppendFileData([file_path |-> Abspath(Head(files)),
                    last_scanned |-> json_data.last_updated,
                    signatures |-> <<>>,
                    summary |-> Placeholder])

\* line 277-279: the summary error is logged and raised again
SummaryFailed ==
    /\ Raise(1, "SummaryError")
    /\ UNCHANGED <<files, json_data, built_at>>

\* mutant of DefaultSummary: no summary without a provider
NoSummary == None

\* line 265-266
DefaultSummary == Placeholder

\* line 275: response.content.strip()
SummaryOf(response) == Strip(response.content)

\* history: the collaborator call for file_path raised
NoteFailure(what, file_path) ==
    /\ failure' = what
    /\ failed_path' = file_path

\* line 189-212: one iteration of the loop over the files
BuildFile ==
    /\ pc[1] = "build"
    /\ files # <<>>
    /\ \E ex \in ExtractOutcomes :
          IF ~ex.ok
          THEN ExtractionFailed /\ NoteFailure("extract", Head(files))
          ELSE IF ~llm_provider
          THEN /\ AppendFileData(FileData(Head(files), ex.text, DefaultSummary))
               /\ UNCHANGED <<failure, failed_path>>
          ELSE \E response \in LlmOutcomes :
                  IF response.kind = "str"
                  THEN /\ AppendFileData(FileData(Head(files), ex.text,
                                                  SummaryOf(response)))
                       /\ UNCHANGED <<failure, failed_path>>
                  ELSE SummaryFailed /\ NoteFailure("summary", Head(files))
    /\ UNCHANGED <<fs, next_ino, temp_path, pos, fd, cause, writer_calls,
                   cleanup_failed, last_moved, now, walk, all_directories,
                   processed_count, output_filename, content, visited, argVars>>

\* line 214, then line 99-102 (single directory) or line 134-138 (recursive)
FinishDirectory ==
    /\ pc[1] = "build"
    /\ files = <<>>
    /\ built_at' = <<>>
    /\ IF recursive
       THEN /\ all_directories' = Append(all_directories, json_data)
            /\ processed_count' = processed_count + 1
            /\ pc' = [pc EXCEPT ![1] = "walk"]
            /\ UNCHANGED content
       ELSE /\ content' = [content EXCEPT ![1] = json_data]
            /\ pc' = [pc EXCEPT ![1] = "w_start"]
            /\ UNCHANGED <<all_directories, processed_count>>
    /\ UNCHANGED <<fs, next_ino, temp_path, pos, fd, err, cause, writer_calls,
                   cleanup_failed, last_moved, now, walk, files, json_data,
                   output_filename, failure, failed_path, visited, argVars>>

\* line 122-125: the names os.walk reports as files that are programming files
RecursiveModeFilter(d, nondirs) ==
    SelectSeq(PathsIn(d, nondirs), LAMBDA q : IsProgrammingFile(q))

\* mutant of HasProgrammingFiles: every visited directory is processed
AlwaysProcessed(programming_files) == TRUE

\* line 128: only a directory with programming files is processed
HasProgrammingFiles(programming_files) == programming_files # <<>>

\* mutant of WalkTopDown: the subdirectories are visited after what was
\* pending (breadth first)
WalkBreadthFirst(top, dirs, pending) == pending \o PathsIn(top, dirs)

\* line 119: os.walk is top-down: the subdirectories of the directory it
\* yielded, in listing order, come before what was pending
WalkTopDown(top, dirs, pending) == PathsIn(top, dirs) \o pending

\* line 119-134: os.walk yields the next directory
WalkStep ==
    /\ pc[1] = "walk"
    /\ walk # <<>>
    /\ LET top == Head(walk) IN
       \E listing \in Orders(ListDir(top)) :
          LET dirs == SelectSeq(listing, LAMBDA n : IsDir(Join(top, n)))
              nondirs == SelectSeq(listing, LAMBDA n : ~IsDir(Join(top, n)))
              programming_files == RecursiveModeFilter(top, nondirs)
          IN  /\ walk' = WalkTopDown(top, dirs, Tail(walk))
              /\ visited' = Append(visited, Abspath(top))
              /\ IF HasProgrammingFiles(programming_files)
                 THEN /\ files' = SortPaths(programming_files)
                      /\ json_data' = NewJsonData(Abspath(top))
                      /\ built_at' = <<>>
                      /\ pc' = [pc EXCEPT ![1] = "build"]
                 ELSE UNCHANGED <<files, json_data, built_at, pc>>
    /\ UNCHANGED <<fs, next_ino, temp_path, pos, fd, err, cause, writer_calls,
                   cleanup_failed, last_moved, now, all_directories,
                   processed_count, output_filename, content, failure,
                   failed_path, argVars>>

\* line 147-150: the output path of the combined document
CombinedOutput(root_directory, base_output_filename) ==
    IF ~IsAbs(base_output_filename) THEN Join(root_directory, base_output_filename)
    ELSE base_output_filename

\* mutant of CombinedContent: the total counts the files, not the directories
CombinedContentCountsFiles ==
    [root_directory |-> Abspath(directory_path),
     last_updated |-> now,
     total_directories_processed |->
         Cardinality({<<i, j>> \in (1..Len(all_directories)) \X (1..2) :
                         j <= Len(all_directories[i].files)}),
     directories |-> all_directories]

\* line 152-158
CombinedContent ==
    [root_directory |-> Abspath(directory_path),
     last_updated |-> now,
     total_directories_processed |-> processed_count,
     directories |-> all_directories]

\* mutant of HasDirectories: the combined document is written even when it
\* has no directories
AlwaysWritten(directories) == TRUE

\* line 141: the combined document is written only when a directory was
\* processed
HasDirectories(directories) == directories # <<>>

\* line 140-165: after the walk
WalkDone ==
    /\ pc[1] = "walk"
    /\ walk = <<>>
    /\ IF HasDirectories(all_directories)
       THEN /\ output_filename' =
                 [output_filename EXCEPT ![1] = CombinedOutput(directory_path, @)]
            /\ content' = [content EXCEPT ![1] = CombinedContent]
            /\ pc' = [pc EXCEPT ![1] = "w_start"]
       ELSE /\ pc' = [pc EXCEPT ![1] = "done"]
            /\ UNCHANGED <<output_filename, content>>
    /\ UNCHANGED <<fs, next_ino, temp_path, pos, fd, err, cause, writer_calls,
                   cleanup_failed, last_moved, now, walk, files, json_data,
                   all_directories, processed_count, failure, failed_path,
                   built_at, visited, argVars>>

\* time passes while the scan runs
Tick ==
    /\ pc[1] \in {"listdir", "build", "walk"}
    /\ now < MaxClock
    /\ now' = now + 1
    /\ UNCHANGED <<writerVars, walk, files, json_data, all_directories,
                   processed_count, output_filename, content, failure,
                   failed_path, built_at, visited, argVars>>

(***************************************************************************)
(* One invocation of create_tldr_file on a project directory.              *)
(***************************************************************************)
\* the project's entries: a.py, b.py, and the directory s with one entry
TreeFs(a, b, s) ==
    (IF a = "file" THEN (Join(ProjAbs, <<97, 46, 112, 121>>) :> FileNode(<<>>, 0))
     ELSE <<>>)
    @@ (IF b = "file" THEN (Join(ProjAbs, <<98, 46, 112, 121>>) :> FileNode(<<>>, 0))
        ELSE IF b = "other" THEN (Join(ProjAbs, <<98, 46, 112, 121>>) :> OtherNode)
        ELSE IF b = "dir" THEN (Join(ProjAbs, <<98, 46, 112, 121>>) :> DirNode)
        ELSE <<>>)
    @@ (IF s = "none" THEN <<>> ELSE (Join(ProjAbs, <<115>>) :> DirNode))
    @@ (IF s = "file"
        THEN (Join(ProjAbs, <<115, 47, 99, 46, 112, 121>>) :> FileNode(<<>>, 0))
        ELSE IF s = "other"
        THEN (Join(ProjAbs, <<115, 47, 99, 46, 112, 121>>) :> OtherNode)
        ELSE IF s = "doc"
        THEN (Join(ProjAbs, <<115, 47, 110, 46, 109, 100>>) :> FileNode(<<>>, 0))
        ELSE <<>>)

\* the directory arguments: "p" (relative), "/w/p", "q" (missing) and
\* "f" (a regular file)
DirArgs == {<<112>>, ProjAbs, <<113>>, <<102>>}

\* the output_filename arguments: None (the default) and "o" (relative)
OutputArgs == {None, <<111>>}

Init ==
    /\ InitIdle
    /\ os_name \in {"posix", "nt"}
    /\ \E a \in {"none", "file"}, b \in {"none", "file", "other", "dir"},
          s \in {"none", "file", "other", "doc"}, prior \in BOOLEAN :
          fs = BaseFs @@ (Join(Cwd, <<102>>) :> FileNode(<<>>, 0))
                  @@ TreeFs(a, b, s) @@ PriorFs(prior)
    /\ fs0 = fs
    /\ llm_provider \in BOOLEAN
    /\ directory_path \in DirArgs
    /\ base_output \in OutputArgs
    /\ classified_path = None
    /\ raw_signatures = None
    /\ AdapterOff
    /\ recursive \in BOOLEAN
    /\ pc = [p \in Procs |-> IF p = 1 THEN "start" ELSE "off"]
    /\ output_filename = [p \in Procs |-> None]
    /\ content = [p \in Procs |-> PriorDoc]

Next ==
    \/ CreateTldrFile
    \/ ListAndSort
    \/ BuildFile
    \/ FinishDirectory
    \/ WalkStep
    \/ WalkDone
    \/ Tick
    \/ \E p \in Procs : Writer(p)

Spec == Init /\ [][Next]_vars

(***************************************************************************)
(* _is_programming_file called on one path.                                *)
(***************************************************************************)
\* the suffixes of the names tried: one for every pattern of the lexers, and
\* "", ".zzz" and ".json.tmp", which no pattern matches
ClassifySuffixes ==
    {<<46, 112, 121>>, <<46, 99>>, <<46, 103, 111>>,
     <<46, 106, 115>>, <<46, 116, 120, 116>>, <<46, 109, 100>>,
     <<46, 114, 115, 116>>, <<46, 105, 110, 105>>, <<46, 99, 102, 103>>,
     <<46, 121, 97, 109, 108>>, <<46, 121, 109, 108>>, <<46, 106, 115, 111, 110>>,
     <<46, 120, 109, 108>>, <<46, 104, 116, 109, 108>>, <<46, 104, 116, 109>>,
     <<46, 99, 115, 115>>, <<46, 100, 105, 102, 102>>, <<46, 112, 97, 116, 99, 104>>,
     <<46, 107, 109, 115, 103>>, <<>>, <<46, 122, 122, 122>>,
     <<46, 106, 115, 111, 110, 46, 116, 109, 112>>}

\* the paths tried: the names "a" and "README" with each suffix, bare, in
\* the relative directory "p" and in "/w/p"
ClassifyInputs ==
    {Join(d, n \o suf) : d \in {<<>>, <<112>>, ProjAbs},
                         n \in {<<97>>, <<82, 69, 65, 68, 77, 69>>},
                         suf \in ClassifySuffixes}

InitClassify ==
    /\ InitIdle
    /\ os_name = "posix"
    /\ fs = BaseFs
    /\ fs0 = fs
    /\ llm_provider = FALSE
    /\ directory_path = ProjAbs
    /\ base_output = None
    /\ recursive = FALSE
    /\ pc = [p \in Procs |-> "off"]
    /\ output_filename = [p \in Procs |-> None]
    /\ content = [p \in Procs |-> PriorDoc]
    /\ classified_path \in ClassifyInputs
    /\ raw_signatures = None
    /\ AdapterOff

\* line 226-241: the call returns
Classify ==
    /\ is_programming = "none"
    /\ classified_path # None
    /\ is_programming' = IF IsProgrammingFile(classified_path) THEN "True"
                         ELSE "False"
    /\ UNCHANGED <<writerVars, scanVars, os_name, fs0, llm_provider, directory_path,
                   base_output, recursive, first_content, classified_path,
                   adapterArgs, adapterVars, parseVars>>

NextClassify == Classify

SpecClassify == InitClassify /\ [][NextClassify]_vars

(***************************************************************************)
(* _parse_signatures called on one text.                                   *)
(***************************************************************************)
\* the lines the texts tried are made of:
\*   ""          "  "        "f"         "\tg \r"
\*   "# c"       "//c"       "- f"       "* g"
\*   "-  f"      "- # c"     "-f"
\*   "```"       "```py"     "f```"      "- ```"
ParseLineChoices ==
    {<<>>, <<32, 32>>, <<102>>, <<9, 103, 32, 13>>,
     <<35, 32, 99>>, <<47, 47, 99>>, <<45, 32, 102>>, <<42, 32, 103>>,
     <<45, 32, 32, 102>>, <<45, 32, 35, 32, 99>>, <<45, 102>>,
     <<96, 96, 96>>, <<96, 96, 96, 112, 121>>, <<102, 96, 96, 96>>,
     <<45, 32, 96, 96, 96>>}

\* the texts tried: 1 to MaxLines of these lines, joined by "\n"
ParseInputs ==
    {JoinWith(ls, 10) : ls \in UNION {[1..n -> ParseLineChoices] : n \in 1..MaxLines}}

InitParse ==
    /\ InitIdle
    /\ os_name = "posix"
    /\ fs = BaseFs
    /\ fs0 = fs
    /\ llm_provider = FALSE
    /\ directory_path = ProjAbs
    /\ base_output = None
    /\ recursive = FALSE
    /\ pc = [p \in Procs |-> "off"]
    /\ output_filename = [p \in Procs |-> None]
    /\ content = [p \in Procs |-> PriorDoc]
    /\ classified_path = None
    /\ AdapterOff
    /\ raw_signatures \in ParseInputs

\* line 291-313: the call returns
Parse ==
    /\ signatures = NotParsed
    /\ raw_signatures # None
    /\ signatures' = ParseSignatures(raw_signatures)
    /\ UNCHANGED <<writerVars, scanVars, os_name, fs0, llm_provider, directory_path,
                   base_output, recursive, first_content, classified_path,
                   is_programming, adapterArgs, adapterVars, raw_signatures>>

NextParse == Parse

SpecParse == InitParse /\ [][NextParse]_vars

(***************************************************************************)
(* The same scan run twice on an unchanged tree.                           *)
(***************************************************************************)
\* the directory b.py of the project holds the file d.py
PkgFs(k) ==
    IF k THEN (Join(ProjAbs, <<98, 46, 112, 121, 47, 100, 46, 112, 121>>)
                  :> FileNode(<<>>, 0))
    ELSE <<>>

InitTwice ==
    /\ InitIdle
    /\ os_name \in {"posix", "nt"}
    /\ \E a \in {"none", "file"}, s \in {"none", "file"}, k \in BOOLEAN :
          fs = BaseFs @@ (Join(Cwd, <<102>>) :> FileNode(<<>>, 0))
                  @@ TreeFs(a, "dir", s) @@ PkgFs(k)
    /\ fs0 = fs
    /\ llm_provider \in BOOLEAN
    /\ directory_path \in DirArgs
    /\ base_output = None
    /\ classified_path = None
    /\ raw_signatures = None
    /\ AdapterOff
    /\ recursive \in BOOLEAN
    /\ pc = [p \in Procs |-> IF p = 1 THEN "start" ELSE "off"]
    /\ output_filename = [p \in Procs |-> None]
    /\ content = [p \in Procs |-> PriorDoc]

\* create_tldr_file is called again with the same arguments after a run
\* that wrote its document
RunAgain ==
    /\ pc[1] = "done"
    /\ first_content = NoDoc
    /\ content[1] # PriorDoc
    /\ first_content' = content[1]
    /\ fs0' = fs
    /\ pc' = [pc EXCEPT ![1] = "start"]
    /\ output_filename' = [output_filename EXCEPT ![1] = None]
    /\ content' = [content EXCEPT ![1] = PriorDoc]
    /\ temp_path' = [temp_path EXCEPT ![1] = None]
    /\ pos' = [pos EXCEPT ![1] = 0]
    /\ json_data' = [directory_path |-> <<>>, last_updated |-> 0, files |-> <<>>]
    /\ built_at' = <<>>
    /\ visited' = <<>>
    /\ all_directories' = <<>>
    /\ processed_count' = 0
    /\ writer_calls' = 0
    /\ last_moved' = 0
    /\ UNCHANGED <<fs, next_ino, fd, err, cause, cleanup_failed, now, walk, files,
                   failure, failed_path, os_name, llm_provider, directory_path,
                   base_output, recursive, classified_path, is_programming,
                   adapterArgs, adapterVars, parseVars>>

NextTwice == Next \/ RunAgain

SpecTwice == InitTwice /\ [][NextTwice]_vars

(***************************************************************************)
(* A re-scan of a directory an earlier run has left its files in.          *)
(***************************************************************************)
InitRescan ==
    /\ InitIdle
    /\ os_name \in {"posix", "nt"}
    /\ \E a \in {"none", "file"}, s \in {"none", "file"} :
          fs = BaseFs @@ TreeFs(a, "file", s)
    /\ fs0 = fs
    /\ llm_provider = FALSE
    /\ directory_path \in {<<112>>, ProjAbs}
    /\ base_output = None
    /\ classified_path = None
    /\ raw_signatures = None
    /\ AdapterOff
    /\ recursive \in BOOLEAN
    /\ pc = [p \in Procs |-> IF p = 1 THEN "start" ELSE "off"]
    /\ output_filename = [p \in Procs |-> None]
    /\ content = [p \in Procs |-> PriorDoc]

\* create_tldr_file is called again with the same arguments after a run
\* that built its document and failed in the writer
RunAfterFailure ==
    /\ pc[1] = "raised"
    /\ first_content = NoDoc
    /\ content[1] # PriorDoc
    /\ first_content' = content[1]
    /\ fs0' = fs
    /\ pc' = [pc EXCEPT ![1] = "start"]
    /\ output_filename' = [output_filename EXCEPT ![1] = None]
    /\ content' = [content EXCEPT ![1] = PriorDoc]
    /\ temp_path' = [temp_path EXCEPT ![1] = None]
    /\ pos' = [pos EXCEPT ![1] = 0]
    /\ fd' = [fd EXCEPT ![1] = 0]
    /\ err' = [err EXCEPT ![1] = NoError]
    /\ cause' = [cause EXCEPT ![1] = "none"]
    /\ cleanup_failed' = [cleanup_failed EXCEPT ![1] = FALSE]
    /\ json_data' = [directory_path |-> <<>>, last_updated |-> 0, files |-> <<>>]
    /\ built_at' = <<>>
    /\ visited' = <<>>
    /\ all_directories' = <<>>
    /\ processed_count' = 0
    /\ writer_calls' = 0
    /\ last_moved' = 0
    /\ UNCHANGED <<fs, next_ino, now, walk, files, failure, failed_path, os_name,
                   llm_provider, directory_path, base_output, recursive,
                   classified_path, is_programming, adapterArgs, adapterVars,
                   parseVars>>

NextRescan == Next \/ RunAgain \/ RunAfterFailure

SpecRescan == InitRescan /\ [][NextRescan]_vars

(***************************************************************************)
(* A scan of a deeper tree: the project holds the directories s, s/t and u.*)
(***************************************************************************)
\* the project's entries: the directories s, s/t and u, and the files
\* a.py, s/c.py, s/t/e.py and u/g.py that are present
DeepFs(a, c, e, g) ==
    (Join(ProjAbs, <<115>>) :> DirNode)
    @@ (Join(ProjAbs, <<115, 47, 116>>) :> DirNode)
    @@ (Join(ProjAbs, <<117>>) :> DirNode)
    @@ (IF a THEN (Join(ProjAbs, <<97, 46, 112, 121>>) :> FileNode(<<>>, 0)) ELSE <<>>)
    @@ (IF c THEN (Join(ProjAbs, <<115, 47, 99, 46, 112, 121>>) :> FileNode(<<>>, 0))
        ELSE <<>>)
    @@ (IF e THEN (Join(ProjAbs, <<115, 47, 116, 47, 101, 46, 112, 121>>)
                      :> FileNode(<<>>, 0))
        ELSE <<>>)
    @@ (IF g THEN (Join(ProjAbs, <<117, 47, 103, 46, 112, 121>>) :> FileNode(<<>>, 0))
        ELSE <<>>)

InitWalk ==
    /\ InitIdle
    /\ os_name \in {"posix", "nt"}
    /\ \E a, c, e, g, prior \in BOOLEAN :
          fs = BaseFs @@ DeepFs(a, c, e, g) @@ PriorFs(prior)
    /\ fs0 = fs
    /\ llm_provider = FALSE
    /\ directory_path \in {<<112>>, ProjAbs}
    /\ base_output = None
    /\ classified_path = None
    /\ raw_signatures = None
    /\ AdapterOff
    /\ recursive \in BOOLEAN
    /\ pc = [p \in Procs |-> IF p = 1 THEN "start" ELSE "off"]
    /\ output_filename = [p \in Procs |-> None]
    /\ content = [p \in Procs |-> PriorDoc]

SpecWalk == InitWalk /\ [][Next]_vars

(***************************************************************************)
(* github_adapter.py: URL validation.                                      *)
(***************************************************************************)
Letters == (65..90) \cup (97..122)
SchemeChars == Letters \cup (48..57) \cup {43, 45, 46}

\* the first index from i on at which s has a character of chars, 0 if none
RECURSIVE FirstIndex(_, _, _)
FirstIndex(s, chars, i) ==
    IF i > Len(s) THEN 0
    ELSE IF s[i] \in chars THEN i
    ELSE FirstIndex(s, chars, i + 1)

\* urllib.parse.urlparse: the netloc and the path of url.  The scheme is
\* what precedes the first ":" when that is a letter followed by scheme
\* characters; a netloc is present when "//" follows and runs to the next
\* "/", "?" or "#"; the path runs to the next "?" or "#".
UrlParse(url) ==
    LET colon == FirstIndex(url, {58}, 1)
        hasScheme == /\ colon > 1
                     /\ url[1] \in Letters
                     /\ \A i \in 1..(colon - 1) : url[i] \in SchemeChars
        rest == IF hasScheme THEN SubSeq(url, colon + 1, Len(url)) ELSE url
        hasNetloc == StartsWith(rest, <<47, 47>>)
        after == SubSeq(rest, 3, Len(rest))
        delim == FirstIndex(after, {47, 63, 35}, 1)
        netloc == IF ~hasNetloc THEN <<>>
                  ELSE IF delim = 0 THEN after
                  ELSE SubSeq(after, 1, delim - 1)
        tail == IF ~hasNetloc THEN rest
                ELSE IF delim = 0 THEN <<>>
                ELSE SubSeq(after, delim, Len(after))
        cut == FirstIndex(tail, {63, 35}, 1)
    IN  [netloc |-> netloc,
         path |-> IF cut = 0 THEN tail ELSE SubSeq(tail, 1, cut - 1)]

\* str.lower() on ASCII text
Lower(s) == [i \in 1..Len(s) |-> IF s[i] \in 65..90 THEN s[i] + 32 ELSE s[i]]

\* str.strip('/')
RECURSIVE StripSlashes(_)
StripSlashes(s) ==
    IF s # <<>> /\ s[1] = 47 THEN StripSlashes(Tail(s))
    ELSE IF s # <<>> /\ s[Len(s)] = 47 THEN StripSlashes(SubSeq(s, 1, Len(s) - 1))
    ELSE s

\* line 120 and 144: parsed.path.strip('/').split('/')
PathParts(url) == SplitOn(StripSlashes(UrlParse(url).path), 47)

GithubNetlocs == {<<103, 105, 116, 104, 117, 98, 46, 99, 111, 109>>,
                  <<119, 119, 119, 46, 103, 105, 116, 104, 117, 98, 46, 99, 111, 109>>}

\* line 112-131: _is_valid_github_url
IsValidGithubUrl(url) ==
    /\ Lower(UrlParse(url).netloc) \in GithubNetlocs
    /\ Len(PathParts(url)) >= 2
    /\ PathParts(url)[1] # <<>>
    /\ PathParts(url)[2] # <<>>

\* line 143-151: _extract_repo_name
ExtractRepoName(url) ==
    LET name == PathParts(url)[2] IN
    IF EndsWith(name, <<46, 103, 105, 116>>)
    THEN SubSeq(name, 1, Len(name) - 4)
    ELSE name

(***************************************************************************)
(* github_adapter.py: process_github_repo, one action per step.  It calls  *)
(* create_tldr_file, which invocation 1 runs.                              *)
(***************************************************************************)
\* what the adapter's steps leave alone
adapterFrame ==
    <<os_name, fs0, llm_provider, recursive, first_content, classified_path,
      is_programming, adapterArgs, parseVars, next_ino, temp_path, pos, fd, err, cause,
      writer_calls, cleanup_failed, last_moved, scanVars>>

TmpDir == <<47, 116, 109, 112>>        \* "/tmp"
TldrSuffix == <<46, 116, 108, 100, 114>>   \* ".tldr"

\* shutil.rmtree(d): the filesystem f without d and everything below it
RemoveTree(f, d) ==
    [q \in {r \in DOMAIN f : r # d /\ ~StartsWith(r, d \o SEP)} |-> f[q]]

\* line 50-54: validate the URL, extract the repository's name
ValidateUrl ==
    /\ adapter_pc = "validate"
    /\ IF ~IsValidGithubUrl(github_url)
       THEN /\ adapter_err' = Error("ValueError", "Invalid GitHub URL")
            /\ adapter_pc' = "ended"
            /\ UNCHANGED repo_name
       ELSE /\ repo_name' = ExtractRepoName(github_url)
            /\ adapter_pc' = "setup"
            /\ UNCHANGED adapter_err
    /\ UNCHANGED <<adapterFrame, fs, pc, directory_path, base_output, download_path,
                   should_cleanup_temp, adapter_ret, clone_failure, cleanup_logged,
                   scan_calls, clone_calls>>

\* the directory tempfile.mkdtemp(prefix="github_<repo_name>_") makes
TempCloneDir(r) ==
    Join(TmpDir, <<103, 105, 116, 104, 117, 98, 95>> \o repo_name \o <<95>> \o r)

\* line 57-65: the download directory; mkdtemp and makedirs are outside the
\* try block, so their failure leaves the call at once
SetupDownload ==
    /\ adapter_pc = "setup"
    /\ \/ /\ adapter_output_dir = None
          /\ \E r \in RandNames :
                /\ TempCloneDir(r) \notin DOMAIN fs
                /\ fs' = With(fs, TempCloneDir(r), DirNode)
                /\ download_path' = TempCloneDir(r)
          /\ should_cleanup_temp' = TRUE
          /\ adapter_pc' = "download"
          /\ UNCHANGED adapter_err
       \/ /\ adapter_output_dir # None
          /\ fs' = IF Exists(adapter_output_dir) THEN fs
                   ELSE With(fs, Abspath(adapter_output_dir), DirNode)
          /\ download_path' = Join(adapter_output_dir, repo_name)
          /\ should_cleanup_temp' = FALSE
          /\ adapter_pc' = "download"
          /\ UNCHANGED adapter_err
       \/ /\ adapter_err' = Error("OSError", "none")
          /\ adapter_pc' = "ended"
          /\ UNCHANGED <<fs, download_path, should_cleanup_temp>>
    /\ UNCHANGED <<adapterFrame, pc, directory_path, base_output, repo_name,
                   adapter_ret, clone_failure, cleanup_logged, scan_calls,
                   clone_calls>>

\* line 163-164: _download_repo removes an existing destination; a failure
\* is logged and raised again (line 188-190)
RemoveExisting ==
    /\ adapter_pc = "download"
    /\ IF Exists(download_path)
       THEN \/ /\ fs' = RemoveTree(fs, Abspath(download_path))
               /\ adapter_pc' = "clone"
               /\ UNCHANGED adapter_err
            \/ /\ adapter_err' = Error("OSError", "rmtree")
               /\ adapter_pc' = "finally"
               /\ UNCHANGED fs
       ELSE /\ adapter_pc' = "clone"
            /\ UNCHANGED <<fs, adapter_err>>
    /\ UNCHANGED <<adapterFrame, pc, directory_path, base_output, repo_name,
                   download_path, should_cleanup_temp, adapter_ret, clone_failure,
                   cleanup_logged, scan_calls, clone_calls>>

\* the repositories cloned: "docs" holds n.md, "code" holds a.py, "shipped"
\* holds a.py and an earlier <repo_name>.tldr
RepoKinds == {"docs", "code", "shipped"}

RepoFs(root, kind) ==
    (root :> DirNode)
    @@ (IF kind = "docs" THEN (Join(root, <<110, 46, 109, 100>>) :> FileNode(<<>>, 0))
        ELSE (Join(root, <<97, 46, 112, 121>>) :> FileNode(<<>>, 0)))
    @@ (IF kind = "shipped"
        THEN (Join(root, repo_name \o TldrSuffix) :> FileNode(Serialize(PriorDoc), 1))
        ELSE <<>>)

\* the ways the clone step fails: git exits with a non-zero status, git is
\* not installed, git exits with 0 but the destination does not exist
CloneFailures == {"exit", "notool", "nodest"}

\* line 178, 182-187: the exception _download_repo raises for each
DownloadError(f) ==
    Error("Exception",
          IF f = "exit" THEN "Git clone failed: <stderr>"
          ELSE IF f = "notool" THEN "Git is not installed or not in PATH"
          ELSE "Repository was not cloned successfully")

\* mutant of CloneFailed: the failure is logged and the call goes on
CloneFailureSwallowed(f) ==
    /\ clone_failure' = f
    /\ adapter_pc' = "scan"
    /\ UNCHANGED adapter_err

\* line 177-190 and 90-92: the clone failed; _download_repo raises, and
\* process_github_repo logs the error and raises it again
CloneFailed(f) ==
    /\ clone_failure' = f
    /\ adapter_err' = DownloadError(f)
    /\ adapter_pc' = "finally"

\* line 167-180: git clone github_url local_path
Clone ==
    /\ adapter_pc = "clone"
    /\ clone_calls' = clone_calls + 1
    /\ \/ /\ \E kind \in RepoKinds :
                fs' = RepoFs(Abspath(download_path), kind) @@ fs
          /\ adapter_pc' = "scan"
          /\ UNCHANGED <<adapter_err, clone_failure>>
       \/ /\ \E f \in CloneFailures : CloneFailed(f)
          /\ UNCHANGED fs
    /\ UNCHANGED <<adapterFrame, pc, directory_path, base_output, repo_name,
                   download_path, should_cleanup_temp, adapter_ret, cleanup_logged,
                   scan_calls>>

\* line 74: tldr_filename
TldrFilename == Join(download_path, repo_name \o TldrSuffix)

\* line 74-78: creator.create_tldr_file(download_path, tldr_filename, recursive)
CallCreateTldrFile ==
    /\ adapter_pc = "scan"
    /\ directory_path' = download_path
    /\ base_output' = TldrFilename
    /\ pc' = [pc EXCEPT ![1] = "start"]
    /\ scan_calls' = scan_calls + 1
    /\ adapter_pc' = "scanning"
    /\ UNCHANGED <<adapterFrame, fs, repo_name, download_path, should_cleanup_temp,
                   adapter_ret, adapter_err, clone_failure, cleanup_logged,
                   clone_calls>>

\* line 80-92: create_tldr_file returned (the TLDR file's path is the
\* value to return, copied to output_dir first when a temp directory was
\* used and output_dir is set) or raised (logged and raised again)
AfterScan ==
    /\ adapter_pc = "scanning"
    /\ pc[1] \in {"done", "raised"}
    /\ IF pc[1] = "raised"
       THEN /\ adapter_err' = err[1]
            /\ UNCHANGED <<adapter_ret, fs>>
       ELSE IF should_cleanup_temp /\ adapter_output_dir # None
       THEN /\ Exists(TldrFilename)
            /\ fs' = With(fs, Abspath(Join(adapter_output_dir, repo_name \o TldrSuffix)),
                          fs[Abspath(TldrFilename)])
            /\ adapter_ret' = Join(adapter_output_dir, repo_name \o TldrSuffix)
            /\ UNCHANGED adapter_err
       ELSE /\ adapter_ret' = TldrFilename
            /\ UNCHANGED <<adapter_err, fs>>
    /\ adapter_pc' = "finally"
    /\ UNCHANGED <<adapterFrame, pc, directory_path, base_output, repo_name,
                   download_path, should_cleanup_temp, clone_failure,
                   cleanup_logged, scan_calls, clone_calls>>

\* mutant of CleanupFailureLogged: the removal's failure leaves the call
CleanupFailureRaised ==
    /\ cleanup_logged' = TRUE
    /\ adapter_err' = Error("OSError", "rmtree")
    /\ adapter_ret' = None
    /\ UNCHANGED fs

\* line 99-100: the removal's failure is logged
CleanupFailureLogged ==
    /\ cleanup_logged' = TRUE
    /\ UNCHANGED <<fs, adapter_err, adapter_ret>>

\* line 93-100: the finally block
Finally ==
    /\ adapter_pc = "finally"
    /\ IF cleanup /\ should_cleanup_temp
       THEN \/ /\ Exists(download_path)
               /\ fs' = RemoveTree(fs, Abspath(download_path))
               /\ UNCHANGED <<cleanup_logged, adapter_err, adapter_ret>>
            \/ CleanupFailureLogged
       ELSE UNCHANGED <<fs, cleanup_logged, adapter_err, adapter_ret>>
    /\ adapter_pc' = "ended"
    /\ UNCHANGED <<adapterFrame, pc, directory_path, base_output, repo_name,
                   download_path, should_cleanup_temp, clone_failure, scan_calls,
                   clone_calls>>

\* the URLs tried: with and without the scheme "https:", the netlocs
\*   "github.com"
\*   "WWW.GitHub.com"
\*   "gitlab.com"
\*   "github.com.evil.io"
\*   "t@github.com"
\*   "github.com:443"
\*   ""
\* and the paths
\*   ""
\*   "/"
\*   "/u"
\*   "/u/"
\*   "/u/r"
\*   "/u/r.git/"
\*   "/u//r"
\*   "/u/r/tree/m?x#y"
UrlSchemes == {<<104, 116, 116, 112, 115, 58>>, <<>>}
UrlNetlocs ==
    {<<103, 105, 116, 104, 117, 98, 46, 99, 111, 109>>,
     <<87, 87, 87, 46, 71, 105, 116, 72, 117, 98, 46, 99, 111, 109>>,
     <<103, 105, 116, 108, 97, 98, 46, 99, 111, 109>>,
     <<103, 105, 116, 104, 117, 98, 46, 99, 111, 109, 46, 101, 118, 105, 108, 46, 105, 111>>,
     <<116, 64, 103, 105, 116, 104, 117, 98, 46, 99, 111, 109>>,
     <<103, 105, 116, 104, 117, 98, 46, 99, 111, 109, 58, 52, 52, 51>>,
     <<>>}
UrlPaths ==
    {<<>>,
     <<47>>,
     <<47, 117>>,
     <<47, 117, 47>>,
     <<47, 117, 47, 114>>,
     <<47, 117, 47, 114, 46, 103, 105, 116, 47>>,
     <<47, 117, 47, 47, 114>>,
     <<47, 117, 47, 114, 47, 116, 114, 101, 101, 47, 109, 63, 120, 35, 121>>}
UrlInputs ==
    {sch \o <<47, 47>> \o n \o x : sch \in UrlSchemes, n \in UrlNetlocs, x \in UrlPaths}
    \cup {n \o x : n \in UrlNetlocs, x \in UrlPaths}

\* the output_dir arguments: None and "d" (relative)
OutputDirArgs == {None, <<100>>}

InitRepo ==
    /\ InitIdle
    /\ os_name \in {"posix", "nt"}
    /\ fs = BaseFs @@ (TmpDir :> DirNode)
    /\ fs0 = fs
    /\ llm_provider = FALSE
    /\ directory_path = None
    /\ base_output = None
    /\ recursive \in BOOLEAN
    /\ pc = [p \in Procs |-> "off"]
    /\ output_filename = [p \in Procs |-> None]
    /\ content = [p \in Procs |-> PriorDoc]
    /\ classified_path = None
    /\ raw_signatures = None
    /\ github_url \in UrlInputs
    /\ adapter_output_dir \in OutputDirArgs
    /\ cleanup \in BOOLEAN
    /\ adapter_pc = "validate"

NextRepo ==
    \/ ValidateUrl
    \/ SetupDownload
    \/ RemoveExisting
    \/ Clone
    \/ CallCreateTldrFile
    \/ AfterScan
    \/ Finally
    \/ Next

SpecRepo == InitRepo /\ [][NextRepo]_vars

(***************************************************************************)
(* Properties.                                                             *)
(***************************************************************************)
\* the path t holds what it held when the run started (or is still absent)
SameTarget(t) ==
    /\ t \in DOMAIN fs <=> t \in DOMAIN fs0
    /\ t \in DOMAIN fs => fs[t].data = fs0[t].data

\* the path t holds the whole text of document d
HoldsDoc(t, d) == t \in DOMAIN fs /\ fs[t].data = Serialize(d)

\* the writer of invocation p is between mkstemp and its return
InWriter(p) ==
    pc[p] \in {"w_dump", "w_platform", "w_unlink", "w_move", "w_copy_open",
               "w_copy", "w_except"}

\* C1: while _write_json_atomically runs, the target path holds the whole
\* previous document or the whole new one; until the rename it is unchanged,
\* and after the call returned it holds the new document.
C1_ReaderSeesOldOrNew ==
    writer_calls > 0 /\ pc[1] # "raised" =>
        /\ SameTarget(Target(1)) \/ HoldsDoc(Target(1), content[1])
        /\ pc[1] \in {"w_dump", "w_platform", "w_unlink", "w_move"} =>
               SameTarget(Target(1))
        /\ pc[1] = "done" => HoldsDoc(Target(1), content[1])

\* C2: when _write_json_atomically fails, at whatever step, the target path
\* holds what it held before the call (or is still absent).
C2_FailureLeavesTarget ==
    writer_calls > 0 /\ pc[1] = "raised" => SameTarget(Target(1))

\* C3 as stated: when the writer fails after creating its temp file, the
\* temp file is gone when the call returns and the error is the wrapped one.
C3_TempGoneOnFailure ==
    \A p \in Procs :
        pc[p] = "raised" /\ temp_path[p] # None =>
            /\ temp_path[p] \notin DOMAIN fs
            /\ err[p].type = "WriteError"
            /\ err[p].cause # "none"

\* C3, amended: when the writer fails after creating its temp file, the
\* temp file is gone when the call returns unless its best-effort removal
\* failed, and the error is the wrapped one, carrying the underlying cause.
C3_TempGoneUnlessRemovalFailed ==
    \A p \in Procs :
        pc[p] = "raised" /\ temp_path[p] # None =>
            /\ temp_path[p] \in DOMAIN fs => cleanup_failed[p]
            /\ err[p].type = "WriteError"
            /\ err[p].cause # "none"

\* a failed move after which the handler removed the temp file
C3_Witness ==
    /\ pc[1] = "raised"
    /\ temp_path[1] # None
    /\ temp_path[1] \notin DOMAIN fs
    /\ err[1] = Error("WriteError", "move")

\* C4: two invocations writing the same target use distinct temp files, the
\* target always holds one whole document (the prior one or one writer's),
\* and once both have finished it holds the document of the writer whose
\* move came last.
C4_ConcurrentWriters ==
    LET t == Join(ProjAbs, TldrJson) IN
    /\ InWriter(1) /\ InWriter(2) => temp_path[1] # temp_path[2]
    /\ SameTarget(t) \/ \E p \in Procs : HoldsDoc(t, content[p])
    /\ (\A p \in Procs : pc[p] \in {"done", "raised"}) /\ last_moved # 0 =>
           HoldsDoc(t, content[last_moved])

\* the DirectoryRecords of a document on disk or in memory
DocRecords(doc) ==
    IF "directories" \in DOMAIN doc
    THEN {doc.directories[i] : i \in 1..Len(doc.directories)}
    ELSE IF "files" \in DOMAIN doc THEN {doc}
    ELSE {}

\* the documents of which some text is on disk
PersistedDocs ==
    UNION {{fs[q].data[i].doc : i \in 1..Len(fs[q].data)} : q \in DOMAIN fs}

\* the DirectoryRecords the scan has finished building
ProducedRecords ==
    {all_directories[i] : i \in 1..Len(all_directories)}
    \cup (IF content[1] # PriorDoc THEN DocRecords(content[1]) ELSE {})

FilePaths(rec) == {rec.files[i].file_path : i \in 1..Len(rec.files)}

\* C5: in a non-recursive scan, when signature extraction raises for a file
\* the scan raises, the writer is never called, no temp file is created and
\* the filesystem (so the output path) is as it was.
C5_ExtractionFailureNoOutput ==
    ~recursive /\ failure = "extract" =>
        /\ pc[1] = "raised"
        /\ err[1].type = "ExtractionError"
        /\ writer_calls = 0
        /\ temp_path[1] = None
        /\ fs = fs0

\* the extraction failed after another file's record was built, with a
\* prior document at the output path
C5_Witness ==
    /\ ~recursive
    /\ failure = "extract"
    /\ pc[1] = "raised"
    /\ Len(json_data.files) >= 1
    /\ HoldsDoc(Join(ProjAbs, TldrJson), PriorDoc)

\* C6: in recursive mode a failure while building any directory's record
\* aborts the aggregation: the error propagates, no combined document is
\* written and the filesystem is as it was.
C6_RecursiveFailureNoOutput ==
    recursive /\ failure # "none" =>
        /\ pc[1] = "raised"
        /\ err[1].type \in {"ExtractionError", "SummaryError"}
        /\ writer_calls = 0
        /\ temp_path[1] = None
        /\ fs = fs0

\* the failure came after another directory's record was built
C6_Witness ==
    /\ recursive
    /\ failure # "none"
    /\ pc[1] = "raised"
    /\ all_directories # <<>>
    /\ HoldsDoc(Join(ProjAbs, TldrJson), PriorDoc)

\* C7: when the configured summarizer fails for a file the error propagates
\* and no record of that file is appended or persisted.
C7_SummaryFailureNoRecord ==
    failure = "summary" =>
        /\ llm_provider
        /\ pc[1] = "raised"
        /\ err[1].type = "SummaryError"
        /\ Abspath(failed_path) \notin FilePaths(json_data)
        /\ \A rec \in ProducedRecords : Abspath(failed_path) \notin FilePaths(rec)
        /\ fs = fs0

\* the summarizer failed for the second file of a directory
C7_Witness ==
    /\ failure = "summary"
    /\ pc[1] = "raised"
    /\ Len(json_data.files) >= 1

\* C8: every FileRecord of a document on disk has its four fields, its
\* summary is never None, and it is the placeholder when no summarizer is
\* configured.
C8_PersistedRecordsComplete ==
    \A doc \in PersistedDocs : \A rec \in DocRecords(doc) :
        \A i \in 1..Len(rec.files) :
            /\ DOMAIN rec.files[i] = {"file_path", "last_scanned", "signatures", "summary"}
            /\ rec.files[i].summary # None
            /\ ~llm_provider => rec.files[i].summary = Placeholder

\* a document with a FileRecord is at the output path, written without a
\* summarizer
C8_Witness ==
    /\ ~llm_provider
    /\ pc[1] = "done"
    /\ HoldsDoc(Target(1), content[1])
    /\ \E rec \in DocRecords(content[1]) : Len(rec.files) >= 1

\* the eligible regular files that are immediate children of directory d
EligibleIn(d) ==
    {q \in DOMAIN fs0 :
        q # SEP /\ Dirname(q) = d /\ fs0[q].kind = "file" /\ IsProgrammingFile(q)}

\* C9: the file_path values of every DirectoryRecord produced are exactly
\* the eligible regular files that are immediate children of its directory,
\* each once.
C9_FilesAreEligibleChildren ==
    \A rec \in ProducedRecords :
        /\ FilePaths(rec) = EligibleIn(rec.directory_path)
        /\ Cardinality(FilePaths(rec)) = Len(rec.files)

\* C10: the files of every DirectoryRecord, finished or being built, are
\* strictly ascending by file_path, and the files still to build come after
\* the ones built.
C10_FilesStrictlyAscending ==
    /\ \A rec \in ProducedRecords \cup {json_data} :
          \A i \in 1..(Len(rec.files) - 1) :
              StrLess(rec.files[i].file_path, rec.files[i + 1].file_path)
    /\ pc[1] = "build" =>
          \A i \in 1..Len(json_data.files), j \in 1..Len(files) :
              StrLess(json_data.files[i].file_path, Abspath(files[j]))

\* a finished DirectoryRecord with two files
C10_Witness ==
    \E rec \in ProducedRecords : Len(rec.files) >= 2

\* the directories of the tree the walk starts from: the root and every
\* directory below it
WalkedDirs ==
    LET root == Abspath(directory_path) IN
    {q \in DOMAIN fs0 :
        fs0[q].kind = "dir" /\ (q = root \/ StartsWith(q, root \o SEP))}

\* the entries of directory d that are not directories: its immediate files
ImmediateFiles(d) ==
    {q \in DOMAIN fs0 : q # SEP /\ Dirname(q) = d /\ fs0[q].kind # "dir"}

\* the immediate files of d that the eligibility predicate accepts
EligibleFiles(d) == {q \in ImmediateFiles(d) : IsProgrammingFile(q)}

\* the walked directories that hold at least one eligible file
DirsWithEligible == {d \in WalkedDirs : EligibleFiles(d) # {}}

\* the combined document of the recursive scan has been assembled
CombinedBuilt == "directories" \in DOMAIN content[1]

\* the directories that have a DirectoryRecord in document doc
RecordedDirs(doc) == {rec.directory_path : rec \in DocRecords(doc)}

NothingDone ==
    /\ fs = fs0
    /\ writer_calls = 0
    /\ temp_path[1] = None
    /\ output_filename[1] = None
    /\ walk = <<>>
    /\ files = <<>>
    /\ json_data.files = <<>>
    /\ all_directories = <<>>

\* C13: create_tldr_file raises FileNotFoundError when the path does not
\* exist and ValueError ("is not a directory") when it exists but is not a
\* directory; in both cases nothing is scanned and no output or temp file
\* is created.
C13_BadPathRaises ==
    LET path == Abspath(directory_path) IN
    pc[1] # "start" =>
        /\ path \notin DOMAIN fs0 =>
              pc[1] = "raised" /\ err[1] = Error("FileNotFoundError", "none")
                               /\ NothingDone
        /\ path \in DOMAIN fs0 /\ fs0[path].kind # "dir" =>
              pc[1] = "raised" /\ err[1] = Error("ValueError", "none")
                               /\ NothingDone

\* the path exists and is a regular file: the second check raised
C13_Witness ==
    /\ Abspath(directory_path) \in DOMAIN fs0
    /\ fs0[Abspath(directory_path)].kind = "file"
    /\ pc[1] = "raised"
    /\ err[1] = Error("ValueError", "none")

\* C14: the document is written to tldr.json directly inside the scanned
\* directory when no output filename is given, and to the given path
\* otherwise, in both modes and for relative and absolute arguments.
C14_OutputPath ==
    writer_calls > 0 =>
        Target(1) = IF base_output = None
                    THEN Join(Abspath(directory_path), TldrJson)
                    ELSE Abspath(base_output)

\* a DirectoryRecord without its timestamp fields
UntimedRecord(rec) ==
    [directory_path |-> rec.directory_path,
     files |-> [i \in 1..Len(rec.files) |->
                   [file_path |-> rec.files[i].file_path,
                    signatures |-> rec.files[i].signatures,
                    summary |-> rec.files[i].summary]]]

\* a document without its timestamp fields
Untimed(doc) ==
    IF "directories" \in DOMAIN doc
    THEN [root_directory |-> doc.root_directory,
          total_directories_processed |-> doc.total_directories_processed,
          directories |-> [i \in 1..Len(doc.directories) |->
                              UntimedRecord(doc.directories[i])]]
    ELSE UntimedRecord(doc)

\* C15: the document a second run of the same scan builds on the unchanged
\* tree equals the first run's document except for the timestamp fields:
\* same files in the same order, same directories in the same order,
\* whatever order the entries are listed in.
C15_RunsAgree ==
    first_content # NoDoc /\ content[1] # PriorDoc =>
        Untimed(content[1]) = Untimed(first_content)

\* the lexer classes the claim lists as non-programming: text, markdown,
\* rst, ini, yaml, json, xml, html, css, diff, logs
NonProgrammingClasses ==
    {"TextLexer", "MarkdownLexer", "RstLexer", "IniLexer", "YamlLexer",
     "JsonLexer", "XmlLexer", "HtmlLexer", "CssLexer", "DiffLexer", "LogsLexer"}

RECURSIVE AfterLast(_, _)
AfterLast(str, c) ==
    IF FirstIndex(str, {c}, 1) = 0 THEN str
    ELSE AfterLast(SubSeq(str, FirstIndex(str, {c}, 1) + 1, Len(str)), c)

UrlHost(url) ==
    LET hostport == AfterLast(UrlParse(url).netloc, 64)
        colon == FirstIndex(hostport, {58}, 1)
    IN  Lower(IF colon = 0 THEN hostport ELSE SubSeq(hostport, 1, colon - 1))

\* the segments of a URL's path, between its slashes
PathSegments(url) == SplitOn(StripSlashes(UrlParse(url).path), 47)

\* what the claim requires of an accepted URL
GithubReference(url) ==
    /\ UrlHost(url) \in {<<103, 105, 116, 104, 117, 98, 46, 99, 111, 109>>,
                         <<119, 119, 119, 46, 103, 105, 116, 104, 117, 98, 46,
                           99, 111, 109>>}
    /\ Len(PathSegments(url)) >= 2
    /\ PathSegments(url)[1] # <<>>
    /\ PathSegments(url)[2] # <<>>

\* the call went past the validation of its URL
UrlAccepted == repo_name # None

\* C17: process_github_repo accepts its URL exactly when the URL's host is
\* github.com or www.github.com (in any case) and its path has two non-empty
\* leading segments; otherwise it raises the invalid-URL error with no
\* directory created or removed and no clone attempted.
C17_AcceptsGithubReferences ==
    adapter_pc \notin {"off", "validate"} =>
        /\ UrlAccepted <=> GithubReference(github_url)
        /\ ~UrlAccepted =>
              /\ adapter_pc = "ended"
              /\ adapter_err = Error("ValueError", "Invalid GitHub URL")
              /\ fs = fs0
              /\ clone_calls = 0

\* the call used a temporary clone directory
UsedTempDir == should_cleanup_temp /\ download_path # None

\* C18: when the call used a temporary clone directory and cleanup is
\* requested, at the end of the call the directory is gone unless its
\* removal failed and was logged, and what the call returns or raises is
\* what cloning and scanning produced, whether the removal failed or not.
C18_TempDirRemoved ==
    adapter_pc = "ended" /\ UsedTempDir /\ cleanup =>
        /\ Exists(download_path) => cleanup_logged
        /\ clone_failure # "none" =>
              adapter_err = DownloadError(clone_failure) /\ adapter_ret = None
        /\ scan_calls > 0 /\ pc[1] = "raised" =>
              adapter_err = err[1] /\ adapter_ret = None
        /\ scan_calls > 0 /\ pc[1] = "done" =>
              adapter_err = NoError /\ adapter_ret = TldrFilename

\* the scan raised, the removal of the temp directory failed and was
\* logged, and the call raised the scan's error
C18_Witness ==
    /\ adapter_pc = "ended"
    /\ UsedTempDir
    /\ cleanup
    /\ cleanup_logged
    /\ scan_calls > 0
    /\ pc[1] = "raised"
    /\ adapter_err = err[1]

\* no file named <something>.tldr exists
NoTldrFile == \A q \in DOMAIN fs : ~EndsWith(q, TldrSuffix)

\* C19: whichever way the clone step fails, _download_repo raises an
\* exception whose message describes that failure, process_github_repo
\* raises it, create_tldr_file is never called and no TLDR file is written.
C19_CloneFailurePropagates ==
    clone_failure # "none" =>
        /\ adapter_pc \in {"finally", "ended"}
        /\ adapter_err = DownloadError(clone_failure)
        /\ adapter_ret = None
        /\ scan_calls = 0
        /\ pc[1] = "off"
        /\ writer_calls = 0
        /\ NoTldrFile

\* git was not installed and the call has ended
C19_Witness ==
    /\ clone_failure = "notool"
    /\ adapter_pc = "ended"
    /\ adapter_err = DownloadError("notool")
    /\ clone_calls = 1

\* C20: when process_github_repo returns, the path it returns is that of
\* a file that exists.
C20_ReturnedFileExists ==
    adapter_pc = "ended" /\ adapter_ret # None => IsFile(adapter_ret)

\* C21: while _generate_json_content runs, the last_scanned of every
\* FileRecord built so far is the clock value at which that record was
\* built, so of two records built at different clock values the later-built
\* one carries the later stamp.
C21_LastScannedIsBuildTime ==
    /\ \A i \in 1..Len(built_at) :
          json_data.files[i].last_scanned = built_at[i]
    /\ \A i, j \in 1..Len(built_at) :
          built_at[i] < built_at[j] =>
              json_data.files[i].last_scanned < json_data.files[j].last_scanned

\* every FileRecord of the directory's record has been built and the record
\* is about to be returned (line 214)
AllFilesBuilt == files = <<>> /\ built_at # <<>>

\* C22: the last_updated of a DirectoryRecord whose FileRecords have all
\* been built is not earlier than the clock value at which the last of them
\* was built.
C22_LastUpdatedAfterFiles ==
    AllFilesBuilt => json_data.last_updated >= built_at[Len(built_at)]

\* the file_path values of the record a non-recursive scan of directory d
\* builds (line 88-96, 190, 206), whatever order d is listed in
SingleScanPaths(d) ==
    LET listing == CHOOSE o \in Orders(ListDir(d)) : TRUE
        sorted == SortPaths(SingleModeFilter(d, listing))
    IN  [i \in 1..Len(sorted) |-> Abspath(sorted[i])]

\* the sequence of file_path values of a DirectoryRecord
RecordPaths(rec) == [i \in 1..Len(rec.files) |-> rec.files[i].file_path]

\* C23: every DirectoryRecord built during a recursive aggregation has the
\* directory_path and the sequence of file_path values of the record a
\* non-recursive scan of its directory builds, whatever kinds of entries
\* the directory holds.
C23_RecursiveRecordIsSingleRecord ==
    recursive /\ fs = fs0 =>
        \A i \in 1..Len(all_directories) :
            /\ all_directories[i].directory_path
                   = NewJsonData(Abspath(all_directories[i].directory_path)).directory_path
            /\ RecordPaths(all_directories[i])
                   = SingleScanPaths(all_directories[i].directory_path)

\* directory e lies below directory d
Below(d, e) == StartsWith(e, d \o SEP)

\* the directory_path values of a sequence of DirectoryRecords
RecordDirSeq(recs) == [i \in 1..Len(recs) |-> recs[i].directory_path]

\* the walk has yielded its last directory
WalkOver == recursive /\ pc[1] = "walk" /\ walk = <<>>

\* C24: the recursive walk yields every directory of the tree exactly once
\* and in pre-order (a directory comes before every directory below it and
\* its subtree is visited without interruption), and the DirectoryRecords
\* are in the order their directories were visited, none twice, in the
\* combined document too.
C24_WalkIsPreOrder ==
    /\ \A i, j \in 1..Len(visited) : visited[i] = visited[j] => i = j
    /\ {visited[i] : i \in 1..Len(visited)} \subseteq WalkedDirs
    /\ WalkOver => {visited[i] : i \in 1..Len(visited)} = WalkedDirs
    /\ \A i, j \in 1..Len(visited) : Below(visited[i], visited[j]) => i < j
    /\ \A i, j, k \in 1..Len(visited) :
          i < j /\ j < k /\ Below(visited[i], visited[k]) =>
              Below(visited[i], visited[j])
    /\ recursive =>
          RecordDirSeq(all_directories)
              = SelectSeq(visited,
                          LAMBDA d : \E i \in 1..Len(all_directories) :
                                        all_directories[i].directory_path = d)
    /\ CombinedBuilt => content[1].directories = all_directories

\* the combined document on disk has the records of the root, of s, of s/t
\* and of u, the walk having listed s before u
C24_Witness ==
    /\ CombinedBuilt
    /\ pc[1] = "done"
    /\ HoldsDoc(Target(1), content[1])
    /\ RecordDirSeq(content[1].directories)
           = <<ProjAbs, Join(ProjAbs, <<115>>), Join(ProjAbs, <<115, 47, 116>>),
               Join(ProjAbs, <<117>>)>>

\* a pure code-fence delimiter: a line of three or more backquotes and
\* nothing else
PureFence(line) == Len(line) >= 3 /\ \A i \in 1..Len(line) : line[i] = 96

\* the reference normalization of one line: the signatures it contributes
ReferenceLine(raw) ==
    LET trimmed == Strip(raw)
        unbulleted ==
            IF StartsWith(trimmed, <<45, 32>>) \/ StartsWith(trimmed, <<42, 32>>)
            THEN SubSeq(trimmed, 3, Len(trimmed))
            ELSE trimmed
    IN  IF trimmed = <<>> THEN <<>>
        ELSE IF StartsWith(trimmed, <<35>>) \/ StartsWith(trimmed, <<47, 47>>)
        THEN <<>>
        ELSE IF PureFence(unbulleted) THEN <<>>
        ELSE <<unbulleted>>

RECURSIVE ReferenceLines(_)
ReferenceLines(lines) ==
    IF lines = <<>> THEN <<>>
    ELSE ReferenceLine(Head(lines)) \o ReferenceLines(Tail(lines))

\* the reference normalization of a text
Reference(text) == ReferenceLines(SplitOn(text, 10))

\* C25: what _parse_signatures returns is the reference normalization of
\* its text: split on line breaks, trim, drop blank lines and comment
\* lines, strip one leading bullet, drop exactly the pure code-fence lines.
C25_ParseIsReference ==
    signatures # NotParsed => signatures = Reference(raw_signatures)

\* a line normalized: trimmed, without one leading bullet
Normalized(raw) ==
    LET trimmed == Strip(raw) IN
    IF StartsWith(trimmed, <<45, 32>>) \/ StartsWith(trimmed, <<42, 32>>)
    THEN SubSeq(trimmed, 3, Len(trimmed))
    ELSE trimmed

\* the lines of the sequence lines at the indices in K, in their order,
\* each normalized
KeptLines(lines, K) ==
    LET idx == SelectSeq([i \in 1..Len(lines) |-> i], LAMBDA i : i \in K)
    IN  [k \in 1..Len(idx) |-> Normalized(lines[idx[k]])]

\* C26: what _parse_signatures returns is its text's lines with some lines
\* deleted and the others normalized, in their original order; equal lines
\* are all kept or all deleted, so a kept line occurring k times is k times
\* in the list.
C26_ParseKeepsOrderAndDuplicates ==
    signatures # NotParsed =>
        LET lines == SplitOn(raw_signatures, 10) IN
        \E K \in SUBSET (1..Len(lines)) :
            /\ signatures = KeptLines(lines, K)
            /\ \A i \in K, j \in 1..Len(lines) : lines[i] = lines[j] => j \in K

\* the text "- f\n# c\nf": the middle line is deleted and both other lines
\* give the signature "f"
C26_Witness ==
    /\ raw_signatures = <<45, 32, 102, 10, 35, 32, 99, 10, 102>>
    /\ signatures = <<<<102>>, <<102>>>>

\* C27: every string _parse_signatures returns is non-empty, has no leading
\* or trailing whitespace, does not begin with # or // and is not a
\* code-fence line.
C27_SignaturesAreClean ==
    signatures # NotParsed =>
        \A i \in 1..Len(signatures) :
            /\ signatures[i] # <<>>
            /\ signatures[i][1] \notin WhiteSpace
            /\ signatures[i][Len(signatures[i])] \notin WhiteSpace
            /\ ~StartsWith(signatures[i], <<35>>)
            /\ ~StartsWith(signatures[i], <<47, 47>>)
            /\ ~StartsWith(signatures[i], <<96, 96, 96>>)

\* the writer of invocation p is past the with block (line 338-341): at the
\* platform test, the removal of the target or the move
PastFsync(p) ==
    pc[p] \in {"w_platform", "w_unlink", "w_move", "w_copy_open", "w_copy"}

\* C28: the writer's temp file is in the directory of the target; when the
\* writer is past the with block, on its way to the rename, the temp file
\* holds the whole document; and when writing, flushing or fsync failed the
\* writer went to its handler, no rename happened and the target is as it
\* was.
C28_WrittenBeforeRename ==
    \A p \in Procs :
        /\ InWriter(p) =>
              /\ Dirname(temp_path[p]) = Dirname(Target(p))
              /\ temp_path[p] # Target(p)
        /\ PastFsync(p) => HoldsDoc(temp_path[p], content[p])
        /\ cause[p] \in {"write", "fsync"} =>
              /\ pc[p] \in {"w_except", "raised"}
              /\ last_moved # p
              /\ SameTarget(Target(p))

\* fsync failed with the whole document in the temp file: the writer raised
\* and the prior document is still at the target
C28_Witness ==
    /\ pc[1] = "raised"
    /\ cause[1] = "fsync"
    /\ err[1] = Error("WriteError", "fsync")
    /\ last_moved = 0
    /\ HoldsDoc(Target(1), PriorDoc)

\* the directories of a document, each with the set of its file_path values
DocPaths(doc) == {<<rec.directory_path, FilePaths(rec)>> : rec \in DocRecords(doc)}

\* the path is that of a temp file of the writer
IsWriterTemp(q) == \E r \in RandNames : q = TempPath(Dirname(q), r)

\* C29: the document a second scan builds, with the default output
\* location, has the directories and the file_path values of the document
\* the first scan built; a second scan that completes builds one; and no
\* record lists the output document or a temp file of the writer.
C29_RescanIsIdempotent ==
    /\ first_content # NoDoc /\ content[1] # PriorDoc =>
          DocPaths(content[1]) = DocPaths(first_content)
    /\ first_content # NoDoc /\ pc[1] = "done" => content[1] # PriorDoc
    /\ \A rec \in ProducedRecords \cup {json_data} : \A q \in FilePaths(rec) :
          /\ q # Join(Abspath(directory_path), TldrJson)
          /\ ~IsWriterTemp(q)

\* the first scan failed in the writer and left its temp file behind; the
\* second scan of the directory, which now holds that temp file, wrote a
\* document with the same file as the first scan's
C29_Witness ==
    /\ first_content # NoDoc
    /\ pc[1] = "done"
    /\ HoldsDoc(Target(1), content[1])
    /\ \E q \in DOMAIN fs0 : IsWriterTemp(q) /\ Dirname(q) = Abspath(directory_path)
    /\ \E rec \in DocRecords(content[1]) : FilePaths(rec) # {}
    /\ DocPaths(content[1]) = DocPaths(first_content)

\* the scanned path is a directory
ScansDirectory == Abspath(directory_path) \in WalkedDirs

\* C30: a recursive scan of a tree in which no directory holds an eligible
\* file raises nothing, builds no record, never calls the writer and leaves
\* the filesystem, so the output path, as it was; a non-recursive scan of a
\* directory without eligible files hands the writer a document whose files
\* list is empty, and that document is at the output path when the scan is
\* done.
C30_EmptyScans ==
    /\ recursive /\ ScansDirectory /\ DirsWithEligible = {} =>
          /\ pc[1] \in {"start", "walk", "done"}
          /\ err[1] = NoError
          /\ all_directories = <<>>
          /\ writer_calls = 0
          /\ temp_path[1] = None
          /\ fs = fs0
    /\ ~recursive /\ ScansDirectory /\ EligibleIn(Abspath(directory_path)) = {} =>
          /\ pc[1] \notin {"start", "listdir", "build"} =>
                /\ writer_calls <= 1
                /\ pc[1] # "w_start" => writer_calls = 1
                /\ content[1] = [directory_path |-> Abspath(directory_path),
                                 last_updated |-> content[1].last_updated,
                                 files |-> <<>>]
          /\ pc[1] = "done" => HoldsDoc(Target(1), content[1])

\* a recursive scan is done on a tree of four directories whose only file
\* is an earlier document, which is still at the output path
C30_Witness ==
    /\ recursive
    /\ ScansDirectory
    /\ DirsWithEligible = {}
    /\ Cardinality(WalkedDirs) = 4
    /\ pc[1] = "done"
    /\ HoldsDoc(Join(ProjAbs, TldrJson), PriorDoc)

====
